---- MODULE Spec2Model ----
(***************************************************************************)
(* Real-time location pipeline of ma3tracker                               *)
(* (internal/controllers/web_socket_controller.go): the LocationHub, the   *)
(* driver / sacco / commuter WebSocket sessions, the movement classifier   *)
(* and the persistence calls they make.                                    *)
(*                                                                         *)
(* Units.  Positions are integers in 1e-5 degree; all modelled points lie  *)
(* on the equator or on one meridian, where the haversine formula reduces  *)
(* to R * |delta| (radians).  Distances are micrometres, speeds are        *)
(* decimetres per second, times are whole seconds.                         *)
(***************************************************************************)
EXTENDS Integers, Sequences, FiniteSets, TLC

(***************************************************************************)
(* Bounds of the model.                                                    *)
(***************************************************************************)
MaxFrames == 2      \* frames the reporters' devices send in one run
MaxTicks == 1       \* times the wall clock advances in one run
MaxTasks == 2       \* delivery goroutines alive at one time
BurstFrames == 103  \* frames sent in the queue-saturation run

(***************************************************************************)
(* Program constants.                                                      *)
(***************************************************************************)
BroadcastCap == 100                \* make(chan ..., 100)
minDistanceForSave == 5000000      \* 5.0 m, in micrometres
minTimeDiffForSave == 10           \* 10.0 s
minSpeedForMoving == 5             \* 0.5 m/s, in dm/s
maxSpeedForStopped == 10           \* 1.0 m/s, in dm/s
periodicSaveInterval == 60         \* 60 * time.Second
EarthUnit == 1111949               \* R * pi / 180 * 1e-5 m, in micrometres
StatusUnauthorized == 401
StatusForbidden == 403
StatusBadRequest == 400
StatusSwitchingProtocols == 101

(***************************************************************************)
(* Strings are sequences of one-character strings, so that slicing,        *)
(* suffix tests and parsing are computed and not assumed.                  *)
(***************************************************************************)
DigitChars == <<"0", "1", "2", "3", "4", "5", "6", "7", "8", "9">>

IsDigit(ch) == \E i \in 1..10 : DigitChars[i] = ch

DigitVal(ch) == (CHOOSE i \in 1..10 : DigitChars[i] = ch) - 1

\* strings.HasSuffix(s, suffix)
HasSuffix(s, suffix) ==
    /\ Len(s) >= Len(suffix)
    /\ SubSeq(s, Len(s) - Len(suffix) + 1, Len(s)) = suffix

\* strings.ContainsAny(s, chars)
ContainsAny(s, chars) == \E i \in 1..Len(s) : s[i] \in chars

\* two decimal digits at positions i, i+1 of s, or -1
Num2(s, i) ==
    IF IsDigit(s[i]) /\ IsDigit(s[i + 1])
    THEN 10 * DigitVal(s[i]) + DigitVal(s[i + 1])
    ELSE -1

\* s carries a numeric zone offset "+hh:mm" / "-hh:mm" from position i on
IsZoneOffset(s, i) ==
    /\ Len(s) = i + 5
    /\ s[i] \in {"+", "-"}
    /\ s[i + 3] = ":"
    /\ Num2(s, i + 1) \in 0..23
    /\ Num2(s, i + 4) \in 0..59

\* that offset, in seconds east of UTC
ZoneOffset(s, i) ==
    (IF s[i] = "+" THEN 1 ELSE -1)
        * (Num2(s, i + 1) * 3600 + Num2(s, i + 4) * 60)

\* time.Parse(time.RFC3339Nano, s) for strings without fractional seconds:
\* "YYYY-MM-DDTHH:MM:SS" followed by "Z" or a numeric offset.  On success t
\* is the instant in seconds counted from the first day of the month (all
\* modelled samples lie in one month).
ParseRFC3339(s) ==
    IF /\ Len(s) >= 20
       /\ \A i \in 1..4 : IsDigit(s[i])
       /\ s[5] = "-" /\ s[8] = "-" /\ s[11] = "T"
       /\ s[14] = ":" /\ s[17] = ":"
       /\ Num2(s, 6) \in 1..12
       /\ Num2(s, 9) \in 1..31
       /\ Num2(s, 12) \in 0..23
       /\ Num2(s, 15) \in 0..59
       /\ Num2(s, 18) \in 0..59
       /\ \/ Len(s) = 20 /\ s[20] = "Z"
          \/ IsZoneOffset(s, 20)
    THEN LET local == ((Num2(s, 9) - 1) * 24 + Num2(s, 12)) * 3600
                          + Num2(s, 15) * 60 + Num2(s, 18)
         IN  [ok |-> TRUE,
              t |-> IF s[20] = "Z" THEN local ELSE local - ZoneOffset(s, 20)]
    ELSE [ok |-> FALSE, t |-> 0]

(***************************************************************************)
(* Geospatial math.                                                        *)
(***************************************************************************)
Abs(x) == IF x < 0 THEN -x ELSE x

FullCircle == 36000000             \* 360 degrees, in 1e-5 degree

\* the central angle between two longitudes (or latitudes), the short way
\* round, in 1e-5 degree
Arc(a, b) ==
    LET d == Abs(b - a) % FullCircle
    IN  IF d > FullCircle - d THEN FullCircle - d ELSE d

\* calculateDistance: haversine distance, evaluated for two points on the
\* equator or on one meridian, where it equals R * (central angle)
calculateDistance(lat1, lon1, lat2, lon2) ==
    CASE lon1 = lon2 -> EarthUnit * Arc(lat1, lat2)
      [] lat1 = 0 /\ lat2 = 0 -> EarthUnit * Arc(lon1, lon2)

\* calculateBearing: initial bearing in whole degrees, for the same points;
\* atan2(0, 0) = 0 makes coincident points bear 0
calculateBearing(lat1, lon1, lat2, lon2) ==
    CASE lon1 = lon2 /\ lat2 >= lat1 -> 0
      [] lon1 = lon2 /\ lat2 < lat1 -> 180
      [] lat1 = 0 /\ lat2 = 0 /\ lon1 # lon2 ->
            IF (lon2 - lon1) % FullCircle < FullCircle \div 2 THEN 90 ELSE 270

(***************************************************************************)
(* Movement classifier.  now is the wall clock that time.Since reads.      *)
(***************************************************************************)
\* shouldSaveLocation that tests the stopped and started rules before the
\* distance rule
shouldSaveLocation_distanceLast(distance, speed, timeDiff, lastLocation, now) ==
    IF lastLocation.ID = 0 THEN <<TRUE, "initial">>
    ELSE IF /\ lastLocation.IsMoving
            /\ speed < maxSpeedForStopped
            /\ timeDiff >= minTimeDiffForSave THEN <<TRUE, "stopped">>
    ELSE IF /\ ~lastLocation.IsMoving
            /\ speed >= minSpeedForMoving
            /\ timeDiff >= minTimeDiffForSave THEN <<TRUE, "started">>
    ELSE IF distance >= minDistanceForSave THEN <<TRUE, "move">>
    ELSE IF now - lastLocation.Timestamp >= periodicSaveInterval
         THEN <<TRUE, "periodic">>
    ELSE <<FALSE, "insignificant">>

\* shouldSaveLocation whose stopped rule does not look at the elapsed time
shouldSaveLocation_stoppedAtOnce(distance, speed, timeDiff, lastLocation, now) ==
    IF lastLocation.ID = 0 THEN <<TRUE, "initial">>
    ELSE IF distance >= minDistanceForSave THEN <<TRUE, "move">>
    ELSE IF /\ lastLocation.IsMoving
            /\ speed < maxSpeedForStopped THEN <<TRUE, "stopped">>
    ELSE IF /\ ~lastLocation.IsMoving
            /\ speed >= minSpeedForMoving
            /\ timeDiff >= minTimeDiffForSave THEN <<TRUE, "started">>
    ELSE IF now - lastLocation.Timestamp >= periodicSaveInterval
         THEN <<TRUE, "periodic">>
    ELSE <<FALSE, "insignificant">>

\* shouldSaveLocation whose started rule asks for more than the stopped
\* rule's speed limit
shouldSaveLocation_startedFast(distance, speed, timeDiff, lastLocation, now) ==
    IF lastLocation.ID = 0 THEN <<TRUE, "initial">>
    ELSE IF distance >= minDistanceForSave THEN <<TRUE, "move">>
    ELSE IF /\ lastLocation.IsMoving
            /\ speed < maxSpeedForStopped
            /\ timeDiff >= minTimeDiffForSave THEN <<TRUE, "stopped">>
    ELSE IF /\ ~lastLocation.IsMoving
            /\ speed > maxSpeedForStopped
            /\ timeDiff >= minTimeDiffForSave THEN <<TRUE, "started">>
    ELSE IF now - lastLocation.Timestamp >= periodicSaveInterval
         THEN <<TRUE, "periodic">>
    ELSE <<FALSE, "insignificant">>

shouldSaveLocation(distance, speed, timeDiff, lastLocation, now) ==
    IF lastLocation.ID = 0 THEN <<TRUE, "initial">>
    ELSE IF distance >= minDistanceForSave THEN <<TRUE, "move">>
    ELSE IF /\ lastLocation.IsMoving
            /\ speed < maxSpeedForStopped
            /\ timeDiff >= minTimeDiffForSave THEN <<TRUE, "stopped">>
    ELSE IF /\ ~lastLocation.IsMoving
            /\ speed >= minSpeedForMoving
            /\ timeDiff >= minTimeDiffForSave THEN <<TRUE, "started">>
    ELSE IF now - lastLocation.Timestamp >= periodicSaveInterval
         THEN <<TRUE, "periodic">>
    ELSE <<FALSE, "insignificant">>

(***************************************************************************)
(* Inbound frames.  A payload is what the device put on the wire: syntax   *)
(* tells whether the bytes are a JSON object with fields of the right      *)
(* types, timestamp is the string of the "timestamp" key (empty when the   *)
(* key is missing).  accuracy, bearing and altitude are carried through    *)
(* unchanged by the code and are left out.                                 *)
(***************************************************************************)
\* LocationData.UnmarshalJSON, as called by json.Unmarshal
UnmarshalJSON(p) ==
    IF ~p.syntax THEN [kind |-> "error"]
    ELSE IF ~HasSuffix(p.timestamp, <<"Z">>) /\ Len(p.timestamp) < 6
         THEN [kind |-> "panic"]      \* ts[len(ts)-6:] out of range
    ELSE LET aux == p.timestamp
             ts == IF \/ HasSuffix(aux, <<"Z">>)
                      \/ ContainsAny(SubSeq(aux, Len(aux) - 5, Len(aux)),
                                     {"+", "-"})
                   THEN aux ELSE aux \o <<"Z">>
             parsed == ParseRFC3339(ts)
         IN  IF ~parsed.ok THEN [kind |-> "error"]
             ELSE [kind |-> "ok",
                   ld |-> [DriverID |-> p.driver_id,
                           Latitude |-> p.latitude,
                           Longitude |-> p.longitude,
                           Speed |-> p.speed,
                           Timestamp |-> parsed.t]]

(***************************************************************************)
(* The identity collaborator: tokens, and the profile tables the           *)
(* authentication reads.                                                   *)
(***************************************************************************)
Conns == {"c1", "c2", "c3"}

\* middleware.ValidateToken: the claims of the tokens that verify
TokenClaims ==
    [driver1 |-> [UserID |-> 11, Role |-> "driver"],
     ghost |-> [UserID |-> 12, Role |-> "driver"],
     sacco1 |-> [UserID |-> 21, Role |-> "sacco"],
     commuter |-> [UserID |-> 31, Role |-> "commuter"],
     admin |-> [UserID |-> 41, Role |-> "admin"]]

ValidateToken(tokenString) ==
    IF tokenString \in DOMAIN TokenClaims
    THEN [ok |-> TRUE, claims |-> TokenClaims[tokenString]]
    ELSE [ok |-> FALSE, claims |-> [UserID |-> 0, Role |-> ""]]

DriverTable == {[ID |-> 1, UserID |-> 11, SaccoID |-> 1]}
SaccoTable == {[ID |-> 1, UserID |-> 21]}
UserTable == {[ID |-> 31, Role |-> "commuter"]}
VehicleTable == {[ID |-> 7, DriverID |-> 1]}

\* strconv.ParseUint(s, 10, 64)
ParseUint(s) ==
    IF Len(s) > 0 /\ \A i \in 1..Len(s) : IsDigit(s[i])
    THEN [ok |-> TRUE,
          n |-> LET RECURSIVE val(_)
                    val(k) == IF k = 0 THEN 0
                              ELSE 10 * val(k - 1) + DigitVal(s[k])
                IN  val(Len(s))]
    ELSE [ok |-> FALSE, n |-> 0]

\* an error value: where it was allocated, and its text
AuthError(site, text) ==
    [err |-> TRUE, ptr |-> site, text |-> text,
     userID |-> 0, role |-> "", saccoID |-> 0, driverID |-> 0]

\* authentication that trusts a verified token: no role is turned away, no
\* profile is looked up and no sacco_id is asked for
authenticateUserForWebSocket_tokenOnly(req) ==
    IF req.token = "" THEN AuthError("auth198", "missing authentication token")
    ELSE LET v == ValidateToken(req.token)
         IN  IF ~v.ok THEN AuthError("auth205", "invalid token")
             ELSE [err |-> FALSE, ptr |-> "", text |-> "",
                   userID |-> v.claims.UserID, role |-> v.claims.Role,
                   saccoID |-> IF ParseUint(req.sacco_id).ok
                               THEN ParseUint(req.sacco_id).n ELSE 1,
                   driverID |-> IF v.claims.Role = "driver" THEN 1 ELSE 0]

\* authenticateUserForWebSocket; a request carries the token and sacco_id
\* query parameters
authenticateUserForWebSocket(req) ==
    IF req.token = "" THEN AuthError("auth198", "missing authentication token")
    ELSE LET v == ValidateToken(req.token)
             userID == v.claims.UserID
             role == v.claims.Role
         IN
         IF ~v.ok THEN AuthError("auth205", "invalid token")
         ELSE CASE role = "driver" ->
                   IF \E d \in DriverTable : d.UserID = userID
                   THEN LET driver == CHOOSE d \in DriverTable :
                                          d.UserID = userID
                        IN  [err |-> FALSE, ptr |-> "", text |-> "",
                             userID |-> userID, role |-> role,
                             saccoID |-> driver.SaccoID,
                             driverID |-> driver.ID]
                   ELSE AuthError("auth216", "driver profile not found")
                [] role = "sacco" ->
                   IF \E sc \in SaccoTable : sc.UserID = userID
                   THEN LET sacco == CHOOSE sc \in SaccoTable :
                                         sc.UserID = userID
                        IN  [err |-> FALSE, ptr |-> "", text |-> "",
                             userID |-> userID, role |-> role,
                             saccoID |-> sacco.ID, driverID |-> 0]
                   ELSE AuthError("auth226", "sacco profile not found")
                [] role = "commuter" ->
                   IF ~\E u \in UserTable : u.ID = userID /\ u.Role = role
                   THEN AuthError("auth235", "user not found")
                   ELSE IF req.sacco_id = <<>>
                   THEN AuthError("auth242", "missing 'sacco_id'")
                   ELSE IF ~ParseUint(req.sacco_id).ok
                   THEN AuthError("auth246", "invalid 'sacco_id'")
                   ELSE [err |-> FALSE, ptr |-> "", text |-> "",
                         userID |-> userID, role |-> role,
                         saccoID |-> ParseUint(req.sacco_id).n,
                         driverID |-> 0]
                [] OTHER ->
                   AuthError("auth251",
                             "unauthorized role for WebSocket connection")

\* errors.Is(err, target) for a target without Is method, and errors that
\* wrap nothing allocated at the target's site: pointer equality
ErrorsIs(err, targetSite) == err.ptr = targetSite

\* the HTTP status HandleLocationWebSocket answers a failed authentication
\* with; the comparison target is allocated by errors.New in the handler
RejectStatus(authErr) ==
    IF ErrorsIs(authErr, "handler356") THEN StatusForbidden
    ELSE StatusUnauthorized

(***************************************************************************)
(* Inputs of the environment.                                              *)
(***************************************************************************)
Request(token, sacco_id, handshake) ==
    [token |-> token, sacco_id |-> sacco_id, handshake |-> handshake]

\* the upgrade requests that are turned away
BadRequests ==
    {Request("driver1", <<>>, FALSE),
     Request("", <<>>, TRUE),
     Request("forged", <<>>, TRUE),
     Request("admin", <<>>, TRUE),
     Request("ghost", <<>>, TRUE),
     Request("commuter", <<>>, TRUE),
     Request("commuter", <<"x">>, TRUE)}

\* the upgrade requests that may arrive on each connection.  Connections
\* are interchangeable, so one mix of sessions is listed: c1 carries a
\* reporter, c2 the sacco's own watcher, c3 a commuter watching either
\* sacco.
RequestsOf(c) ==
    CASE c = "c1" -> {Request("driver1", <<>>, TRUE)}
      [] c = "c2" -> {Request("sacco1", <<>>, TRUE)}
      [] c = "c3" -> {Request("commuter", <<"1">>, TRUE),
                      Request("commuter", <<"2">>, TRUE)}

\* the device clock's reading, as the device writes it
Stamp(hh, mm, ss, zone) ==
    <<"2", "0", "2", "4", "-", "0", "1", "-", "0", "1", "T">>
        \o <<DigitChars[(hh \div 10) + 1], DigitChars[(hh % 10) + 1], ":">>
        \o <<DigitChars[(mm \div 10) + 1], DigitChars[(mm % 10) + 1], ":">>
        \o <<DigitChars[(ss \div 10) + 1], DigitChars[(ss % 10) + 1]>>
        \o zone

Payload(driver, lon, speed, ts) ==
    [mtype |-> "text", syntax |-> TRUE, driver_id |-> driver,
     latitude |-> 0, longitude |-> lon, speed |-> speed, timestamp |-> ts]

\* well-formed samples of driver 1: at the origin at 10:00:00, and about
\* 11 m east of it 5 s later (zone omitted) and 7 s later (as +03:00)
AtOrigin == Payload(1, 0, 0, Stamp(10, 0, 0, <<"Z">>))
MovedEast == Payload(1, 10, 0, Stamp(10, 0, 5, <<>>))
StillEast ==
    Payload(1, 10, 0, Stamp(13, 0, 7, <<"+", "0", "3", ":", "0", "0">>))

PipelineFrames == {AtOrigin, MovedEast}
GoodFrames == {AtOrigin, MovedEast, StillEast}

\* frames that are not such samples: another driver's id, no timestamp, a
\* time of day only, a date only, bytes that are not JSON, a binary frame
OddFrames ==
    {Payload(2, 0, 0, Stamp(10, 0, 0, <<"Z">>)),
     Payload(1, 0, 0, <<>>),
     Payload(1, 0, 0, <<"1", "0", ":", "0", "0">>),
     Payload(1, 0, 0, <<"2", "0", "2", "4", "-", "0", "1", "-", "0", "1">>),
     [Payload(1, 0, 0, <<>>) EXCEPT !.syntax = FALSE],
     [Payload(1, 0, 0, Stamp(10, 0, 0, <<"Z">>)) EXCEPT !.mtype = "binary"]}

\* the frames a reporter's device may send
Frames == GoodFrames \cup OddFrames

(***************************************************************************)
(* State.                                                                  *)
(***************************************************************************)
VARIABLES
    pc,            \* per connection: where its handler goroutine stands
    httpStatus,    \* per connection: status the handshake was answered with
    ident,         \* per connection: (role, saccoID, driverID) of the session
    open,          \* per connection: the transport is up
    inbox,         \* per connection: frames sent by the peer, not yet read
    locData,       \* per driver session: the sample being processed
    pending,       \* per driver session: the record being saved / published
    reply,         \* per driver session: last message written to the driver
    saccoClients,  \* hub registry: sacco id -> set of connections
    broadcast,     \* hub channel of messages
    hubMsg,        \* message the hub's run loop has received, <<>> if none
    mu,            \* who holds the hub's mutex: "free" or "run"
    tasks,         \* delivery goroutines spawned by run and not finished
    delivered,     \* per connection: sequence ids written to it, in order
    records,       \* location_histories table, in creation order
    published,     \* sequence ids handed to PublishLocation, in order
    now,           \* wall clock
    ticks,         \* number of clock advances so far
    sent,          \* number of frames sent so far
    hubCalls       \* the last two calls made to the hub's membership
                   \* methods from outside the sessions, each with the
                   \* registry it found

connVars == <<pc, httpStatus, ident, open>>
driverVars == <<locData, pending, reply>>
hubVars == <<saccoClients, broadcast, hubMsg, mu, tasks, delivered>>
envVars == <<now, ticks, sent, hubCalls>>
vars == <<pc, httpStatus, ident, open, inbox, locData, pending,
          reply, saccoClients, broadcast, hubMsg, mu, tasks, delivered,
          records, published, now, ticks, sent, hubCalls>>

ZeroIdent == [role |-> "", saccoID |-> 0, driverID |-> 0]
ZeroLocData ==
    [DriverID |-> 0, Latitude |-> 0, Longitude |-> 0, Speed |-> 0,
     Timestamp |-> 0]
\* models.LocationHistory zero value
ZeroRecord ==
    [ID |-> 0, DriverID |-> 0, Latitude |-> 0, Longitude |-> 0, Speed |-> 0,
     Bearing |-> 0, IsMoving |-> FALSE, DistanceFromLast |-> 0,
     Timestamp |-> 0, EventType |-> ""]
NoReply == [kind |-> "none"]

\* the wall clock when the server starts: the first sample's instant
StartTime == ParseRFC3339(Stamp(10, 0, 0, <<"Z">>)).t

Init ==
    /\ pc = [c \in Conns |-> "idle"]
    /\ httpStatus = [c \in Conns |-> 0]
    /\ ident = [c \in Conns |-> ZeroIdent]
    /\ open = [c \in Conns |-> FALSE]
    /\ inbox = [c \in Conns |-> <<>>]
    /\ locData = [c \in Conns |-> ZeroLocData]
    /\ pending = [c \in Conns |-> ZeroRecord]
    /\ reply = [c \in Conns |-> NoReply]
    /\ saccoClients = <<>>
    /\ broadcast = <<>>
    /\ hubMsg = <<>>
    /\ mu = "free"
    /\ tasks = {}
    /\ delivered = [c \in Conns |-> <<>>]
    /\ records = <<>>
    /\ published = <<>>
    /\ now = StartTime
    /\ ticks = 0
    /\ sent = 0
    /\ hubCalls = <<>>

\* the process has died of a panic in a goroutine that nothing recovers
Crashed == \E t \in tasks : t.st = "panic"

(***************************************************************************)
(* LocationHub.  The critical sections of RegisterClient and               *)
(* UnregisterClient change the map and nothing else and are taken as one   *)
(* step each, which needs the mutex free; run holds the mutex from its     *)
(* Lock to its Unlock, across the loop that starts the goroutines.         *)
(***************************************************************************)
\* RegisterClient that also adds the connection to every other sacco's set
RegisterClient_everySacco(clients, saccoID, conn) ==
    LET made == IF saccoID \in DOMAIN clients THEN clients
                ELSE clients @@ (saccoID :> {})
    IN  [sc \in DOMAIN made |-> made[sc] \cup {conn}]

\* RegisterClient that takes out a connection it finds in the set
RegisterClient_toggle(clients, saccoID, conn) ==
    LET made == IF saccoID \in DOMAIN clients THEN clients
                ELSE clients @@ (saccoID :> {})
    IN  [made EXCEPT ![saccoID] =
            IF conn \in @ THEN @ \ {conn} ELSE @ \cup {conn}]

\* RegisterClient, under h.mu: the registry after the call
RegisterClient(clients, saccoID, conn) ==
    LET made == IF saccoID \in DOMAIN clients THEN clients
                ELSE clients @@ (saccoID :> {})
    IN  [made EXCEPT ![saccoID] = @ \cup {conn}]

\* UnregisterClient that leaves an emptied entry in the map
UnregisterClient_keepEmpty(clients, saccoID, conn) ==
    IF saccoID \in DOMAIN clients
    THEN [clients EXCEPT ![saccoID] = @ \ {conn}]
    ELSE clients

\* UnregisterClient that removes nothing
UnregisterClient_noop(clients, saccoID, conn) == clients

\* UnregisterClient, under h.mu: the registry after the call
UnregisterClient(clients, saccoID, conn) ==
    IF saccoID \in DOMAIN clients
    THEN LET left == clients[saccoID] \ {conn}
         IN  IF left = {}
             THEN [t \in DOMAIN clients \ {saccoID} |-> clients[t]]
             ELSE [clients EXCEPT ![saccoID] = left]
    ELSE clients

\* PublishLocation on a channel without capacity limit
PublishLocation_unbounded(chan, data) == Append(chan, data)

\* PublishLocation: the channel after the non-blocking send
PublishLocation(chan, data) ==
    IF Len(chan) < BroadcastCap THEN Append(chan, data) ELSE chan

\* run, "for msg := range h.broadcast": receive the next message
HubReceive ==
    /\ ~Crashed
    /\ hubMsg = <<>>
    /\ broadcast # <<>>
    /\ hubMsg' = <<Head(broadcast)>>
    /\ broadcast' = Tail(broadcast)
    /\ UNCHANGED <<connVars, inbox, driverVars, saccoClients, mu, tasks,
                   delivered, records, published, envVars>>

\* FanoutTargets that falls back on every registered connection when the
\* message's sacco has no entry
FanoutTargets_fallbackAll(clients, msg) ==
    IF msg.sacco_id[1] # "float64" THEN {}
    ELSE IF msg.sacco_id[2] \in DOMAIN clients THEN clients[msg.sacco_id[2]]
    ELSE UNION {clients[sc] : sc \in DOMAIN clients}

\* FanoutTargets that does not look at the message's sacco
FanoutTargets_allSaccos(clients, msg) ==
    UNION {clients[sc] : sc \in DOMAIN clients}

\* the connections run starts a delivery goroutine for
FanoutTargets(clients, msg) ==
    IF msg.sacco_id[1] # "float64" THEN {}
    ELSE IF msg.sacco_id[2] \in DOMAIN clients THEN clients[msg.sacco_id[2]]
    ELSE {}

\* run, h.mu.Lock() at the top of the loop body; limit bounds the
\* goroutines alive once the body has run
HubLock(limit) ==
    /\ ~Crashed
    /\ hubMsg # <<>>
    /\ mu = "free"
    /\ Cardinality(tasks)
           + Cardinality(FanoutTargets(saccoClients, hubMsg[1])) <= limit
    /\ mu' = "run"
    /\ UNCHANGED <<connVars, inbox, driverVars, saccoClients, broadcast,
                   hubMsg, tasks, delivered, records, published, envVars>>

\* HubFanout that returns to the top of the loop without h.mu.Unlock()
HubFanout_keepLock ==
    /\ ~Crashed
    /\ mu = "run"
    /\ tasks' = tasks \cup
           {[conn |-> c, msg |-> hubMsg[1], st |-> "spawned"] :
                c \in FanoutTargets(saccoClients, hubMsg[1])}
    /\ hubMsg' = <<>>
    /\ UNCHANGED <<connVars, inbox, driverVars, saccoClients, broadcast, mu,
                   delivered, records, published, envVars>>

\* run, the rest of the loop body: one goroutine per registered connection,
\* then h.mu.Unlock()
HubFanout ==
    /\ ~Crashed
    /\ mu = "run"
    /\ tasks' = tasks \cup
           {[conn |-> c, msg |-> hubMsg[1], st |-> "spawned"] :
                c \in FanoutTargets(saccoClients, hubMsg[1])}
    /\ hubMsg' = <<>>
    /\ mu' = "free"
    /\ UNCHANGED <<connVars, inbox, driverVars, saccoClients, broadcast,
                   delivered, records, published, envVars>>

\* delivery goroutine: c.WriteJSON starts
TaskWriteBegin(t) ==
    /\ ~Crashed
    /\ t \in tasks
    /\ t.st = "spawned"
    /\ tasks' = (tasks \ {t}) \cup {[t EXCEPT !.st = "writing"]}
    /\ UNCHANGED <<connVars, inbox, driverVars, saccoClients, broadcast,
                   hubMsg, mu, delivered, records, published, envVars>>

\* delivery goroutine: c.WriteJSON starts while another goroutine is inside
\* c.WriteJSON on the same connection.  The connection allows one writer
\* at a time; when it notices the second one it panics, and a panic in a
\* goroutine started by run ends the process.
TaskWritePanic(t) ==
    /\ ~Crashed
    /\ t \in tasks
    /\ t.st = "spawned"
    /\ \E u \in tasks : u.conn = t.conn /\ u.st = "writing"
    /\ tasks' = (tasks \ {t}) \cup {[t EXCEPT !.st = "panic"]}
    /\ UNCHANGED <<connVars, inbox, driverVars, saccoClients, broadcast,
                   hubMsg, mu, delivered, records, published, envVars>>

\* the results c.WriteJSON can have on a connection: nil, a close error
\* with one of the codes the goroutine tests for, or any other error
WriteResults(c) == IF open[c] THEN {"nil"} ELSE {"close", "other"}

\* delivery goroutine: c.WriteJSON returns
TaskWriteEnd(t) ==
    /\ ~Crashed
    /\ t \in tasks
    /\ t.st = "writing"
    /\ \E err \in WriteResults(t.conn) :
          IF err = "nil"
          THEN /\ delivered' = [delivered EXCEPT ![t.conn] =
                                    Append(@, t.msg.sequence_id)]
               /\ tasks' = tasks \ {t}
          ELSE /\ tasks' = (tasks \ {t}) \cup {[t EXCEPT !.st = err]}
               /\ UNCHANGED delivered
    /\ UNCHANGED <<connVars, inbox, driverVars, saccoClients, broadcast,
                   hubMsg, mu, records, published, envVars>>

\* error handling that logs every error and unregisters on none
AfterWriteError_logOnly(clients, err, saccoID, conn) == clients

\* the registry after the goroutine has handled the error of its write:
\* websocket.IsCloseError(err, ...) unregisters, anything else is logged
AfterWriteError(clients, err, saccoID, conn) ==
    IF err = "close" THEN UnregisterClient(clients, saccoID, conn)
    ELSE clients

\* delivery goroutine: "if err != nil", then the goroutine ends
TaskWriteError(t) ==
    /\ ~Crashed
    /\ t \in tasks
    /\ t.st \in {"close", "other"}
    /\ t.st = "close" => mu = "free"      \* h.UnregisterClient locks
    /\ saccoClients' = AfterWriteError(saccoClients, t.st,
                                       t.msg.sacco_id[2], t.conn)
    /\ tasks' = tasks \ {t}
    /\ UNCHANGED <<connVars, inbox, driverVars, broadcast, hubMsg, mu,
                   delivered, records, published, envVars>>

(***************************************************************************)
(* Session supervisor.                                                     *)
(***************************************************************************)
\* the handler a session of this role runs first; "closed" for a role no
\* branch of HandleLocationWebSocket handles
FirstStep(role) ==
    CASE role = "driver" -> "read"
      [] role \in {"sacco", "commuter"} -> "register"
      [] OTHER -> "closed"

\* HandleLocationWebSocket up to the role dispatch, for an upgrade request
\* req arriving on the new connection c
HandleLocationWebSocket(c, req) ==
    /\ ~Crashed
    /\ pc[c] = "idle"
    /\ LET auth == authenticateUserForWebSocket(req)
       IN  IF auth.err
           THEN /\ httpStatus' = [httpStatus EXCEPT ![c] = RejectStatus(auth)]
                /\ pc' = [pc EXCEPT ![c] = "rejected"]
                /\ UNCHANGED <<ident, open>>
           ELSE IF ~req.handshake      \* upgrader.Upgrade fails
           THEN /\ httpStatus' = [httpStatus EXCEPT ![c] = StatusBadRequest]
                /\ pc' = [pc EXCEPT ![c] = "rejected"]
                /\ UNCHANGED <<ident, open>>
           ELSE /\ httpStatus' = [httpStatus EXCEPT
                                      ![c] = StatusSwitchingProtocols]
                /\ ident' = [ident EXCEPT ![c] =
                                 [role |-> auth.role,
                                  saccoID |-> auth.saccoID,
                                  driverID |-> auth.driverID]]
                /\ open' = [open EXCEPT ![c] = TRUE]
                /\ pc' = [pc EXCEPT ![c] = FirstStep(auth.role)]
    /\ UNCHANGED <<inbox, driverVars, hubVars, records, published, envVars>>

(***************************************************************************)
(* Watcher sessions: handleSaccoWebSocket and handleCommuterWebSocket,     *)
(* which differ in their log texts only.                                   *)
(***************************************************************************)
\* locationHub.RegisterClient(saccoID, conn)
WatcherRegister(c) ==
    /\ ~Crashed
    /\ pc[c] = "register"
    /\ mu = "free"
    /\ saccoClients' = RegisterClient(saccoClients, ident[c].saccoID, c)
    /\ pc' = [pc EXCEPT ![c] = "watch"]
    /\ UNCHANGED <<httpStatus, ident, open, inbox, driverVars,
                   broadcast, hubMsg, mu, tasks, delivered, records,
                   published, envVars>>

\* conn.ReadMessage returns a frame: it is ignored
WatcherRead(c) ==
    /\ ~Crashed
    /\ pc[c] = "watch"
    /\ inbox[c] # <<>>
    /\ inbox' = [inbox EXCEPT ![c] = Tail(@)]
    /\ UNCHANGED <<connVars, driverVars, hubVars, records, published,
                   envVars>>

\* conn.ReadMessage returns an error: break out of the loop
WatcherReadError(c) ==
    /\ ~Crashed
    /\ pc[c] = "watch"
    /\ inbox[c] = <<>>
    /\ ~open[c]
    /\ pc' = [pc EXCEPT ![c] = "unregister"]
    /\ UNCHANGED <<httpStatus, ident, open, inbox, driverVars,
                   hubVars, records, published, envVars>>

\* the deferred locationHub.UnregisterClient(saccoID, conn), then the
\* deferred conn.Close() of HandleLocationWebSocket
WatcherUnregister(c) ==
    /\ ~Crashed
    /\ pc[c] = "unregister"
    /\ mu = "free"
    /\ saccoClients' = UnregisterClient(saccoClients, ident[c].saccoID, c)
    /\ pc' = [pc EXCEPT ![c] = "closed"]
    /\ open' = [open EXCEPT ![c] = FALSE]
    /\ UNCHANGED <<httpStatus, ident, inbox, driverVars, broadcast,
                   hubMsg, mu, tasks, delivered, records, published,
                   envVars>>

(***************************************************************************)
(* Reporter sessions: handleDriverWebSocket, processDriverLocation and     *)
(* saveAndPublishLocation.  reply holds what the session last wrote to the *)
(* driver's connection (the code ignores the result of these writes).      *)
(***************************************************************************)
ErrorReply(text) == [kind |-> "error", error |-> text]
IgnoredReply == [kind |-> "text", text |-> "no significant change"]

\* DecodeFrame without the comparison of the two driver ids
DecodeFrame_noIdentityCheck(p, authenticatedDriverID) ==
    IF p.mtype # "text" THEN [step |-> "skip"]
    ELSE LET u == UnmarshalJSON(p)
         IN  IF u.kind = "panic" THEN [step |-> "panic"]
             ELSE IF u.kind = "error"
             THEN [step |-> "reply",
                   reply |-> ErrorReply("Invalid location data format.")]
             ELSE [step |-> "lookup", ld |-> u.ld]

\* processDriverLocation up to the previous-location query: what becomes of
\* a frame read by handleDriverWebSocket
DecodeFrame(p, authenticatedDriverID) ==
    IF p.mtype # "text" THEN [step |-> "skip"]
    ELSE LET u == UnmarshalJSON(p)
         IN  IF u.kind = "panic" THEN [step |-> "panic"]
             ELSE IF u.kind = "error"
             THEN [step |-> "reply",
                   reply |-> ErrorReply("Invalid location data format.")]
             ELSE IF u.ld.DriverID # authenticatedDriverID
             THEN [step |-> "reply",
                   reply |-> ErrorReply("Unauthorized location update.")]
             ELSE [step |-> "lookup", ld |-> u.ld]

\* conn.ReadMessage returns a frame; a panic unwinds the handler, whose
\* deferred conn.Close() runs
DriverRead(c) ==
    /\ ~Crashed
    /\ pc[c] = "read"
    /\ inbox[c] # <<>>
    /\ inbox' = [inbox EXCEPT ![c] = Tail(@)]
    /\ LET d == DecodeFrame(Head(inbox[c]), ident[c].driverID)
       IN  CASE d.step = "skip" ->
                  UNCHANGED <<pc, open, locData, reply>>
             [] d.step = "panic" ->
                  /\ pc' = [pc EXCEPT ![c] = "closed"]
                  /\ open' = [open EXCEPT ![c] = FALSE]
                  /\ UNCHANGED <<locData, reply>>
             [] d.step = "reply" ->
                  /\ reply' = [reply EXCEPT ![c] = d.reply]
                  /\ UNCHANGED <<pc, open, locData>>
             [] d.step = "lookup" ->
                  /\ locData' = [locData EXCEPT ![c] = d.ld]
                  /\ pc' = [pc EXCEPT ![c] = "lookup"]
                  /\ UNCHANGED <<open, reply>>
    /\ UNCHANGED <<httpStatus, ident, pending, hubVars, records,
                   published, envVars>>

\* conn.ReadMessage returns an error: the loop ends, the handler returns
DriverReadError(c) ==
    /\ ~Crashed
    /\ pc[c] = "read"
    /\ inbox[c] = <<>>
    /\ ~open[c]
    /\ pc' = [pc EXCEPT ![c] = "closed"]
    /\ UNCHANGED <<httpStatus, ident, open, inbox, driverVars,
                   hubVars, records, published, envVars>>

\* Where("driver_id = ?").Order("created_at desc").First: the newest record
\* of the driver, the zero record if there is none
LastLocation(recs, driverID) ==
    LET mine == {i \in 1..Len(recs) : recs[i].DriverID = driverID}
    IN  IF mine = {} THEN ZeroRecord
        ELSE recs[CHOOSE i \in mine : \A j \in mine : j <= i]

\* the locationRecord saveAndPublishLocation builds
LocationRecord(ld, distance, bearing, isMoving, eventType) ==
    [ID |-> 0, DriverID |-> ld.DriverID, Latitude |-> ld.Latitude,
     Longitude |-> ld.Longitude, Speed |-> ld.Speed, Bearing |-> bearing,
     IsMoving |-> isMoving, DistanceFromLast |-> distance,
     Timestamp |-> ld.Timestamp, EventType |-> eventType]

\* Classify that saves whatever the verdict is
Classify_saveAll(ld, lastLocation, clock) ==
    IF lastLocation.ID = 0
    THEN LocationRecord(ld, 0, 0, TRUE, "initial")
    ELSE LET distance == calculateDistance(lastLocation.Latitude,
                             lastLocation.Longitude, ld.Latitude,
                             ld.Longitude)
             timeDiff == ld.Timestamp - lastLocation.Timestamp
             currentSpeed == IF ld.Speed < 0 THEN 0 ELSE ld.Speed
             bearing == calculateBearing(lastLocation.Latitude,
                            lastLocation.Longitude, ld.Latitude,
                            ld.Longitude)
             verdict == shouldSaveLocation(distance, currentSpeed, timeDiff,
                                           lastLocation, clock)
         IN  LocationRecord(ld, distance, bearing,
                            currentSpeed > minSpeedForMoving, verdict[2])

\* Classify that compares a first sample with the zero record instead of
\* taking it as the initial one
Classify_noInitial(ld, lastLocation, clock) ==
    LET distance == calculateDistance(lastLocation.Latitude,
                        lastLocation.Longitude, ld.Latitude, ld.Longitude)
        timeDiff == ld.Timestamp - lastLocation.Timestamp
        currentSpeed == IF ld.Speed < 0 THEN 0 ELSE ld.Speed
        bearing == calculateBearing(lastLocation.Latitude,
                       lastLocation.Longitude, ld.Latitude, ld.Longitude)
        verdict == shouldSaveLocation(distance, currentSpeed, timeDiff,
                                      [lastLocation EXCEPT !.ID = 1], clock)
    IN  IF verdict[1]
        THEN LocationRecord(ld, distance, bearing,
                            currentSpeed > minSpeedForMoving, verdict[2])
        ELSE ZeroRecord

\* processDriverLocation after the query: the record to save, or the zero
\* record when the sample is not significant
Classify(ld, lastLocation, clock) ==
    IF lastLocation.ID = 0       \* gorm.ErrRecordNotFound
    THEN LocationRecord(ld, 0, 0, TRUE, "initial")
    ELSE LET distance == calculateDistance(lastLocation.Latitude,
                             lastLocation.Longitude, ld.Latitude,
                             ld.Longitude)
             timeDiff == ld.Timestamp - lastLocation.Timestamp
             currentSpeed == IF ld.Speed < 0 THEN 0 ELSE ld.Speed
             bearing == calculateBearing(lastLocation.Latitude,
                            lastLocation.Longitude, ld.Latitude,
                            ld.Longitude)
             verdict == shouldSaveLocation(distance, currentSpeed, timeDiff,
                                           lastLocation, clock)
         IN  IF verdict[1]
             THEN LocationRecord(ld, distance, bearing,
                                 currentSpeed > minSpeedForMoving, verdict[2])
             ELSE ZeroRecord

\* a lookup whose every error counts as "no record found"
LookupOutcome_errorIsAbsent(dbError, lastLocation) ==
    IF dbError \/ lastLocation.ID = 0 THEN "absent" ELSE "found"

\* processDriverLocation, the result of First(&lastLocation): a record,
\* gorm.ErrRecordNotFound, or any other error
LookupOutcome(dbError, lastLocation) ==
    IF dbError THEN "error"
    ELSE IF lastLocation.ID = 0 THEN "absent"
    ELSE "found"

\* processDriverLocation: query the last location, classify; faults are the
\* outcomes the database may have (TRUE: the query fails)
DriverLookup(c, faults) ==
    /\ ~Crashed
    /\ pc[c] = "lookup"
    /\ \E dbError \in faults :
          LET last == LastLocation(records, locData[c].DriverID)
              outcome == LookupOutcome(dbError, last)
              rec == Classify(locData[c],
                              IF outcome = "found" THEN last ELSE ZeroRecord,
                              now)
          IN  IF outcome = "error"
              THEN /\ reply' = [reply EXCEPT ![c] =
                         ErrorReply("Database error fetching last location.")]
                   /\ pc' = [pc EXCEPT ![c] = "read"]
                   /\ locData' = [locData EXCEPT ![c] = ZeroLocData]
                   /\ UNCHANGED pending
              ELSE IF rec = ZeroRecord
              THEN /\ reply' = [reply EXCEPT ![c] = IgnoredReply]
                   /\ pc' = [pc EXCEPT ![c] = "read"]
                   /\ locData' = [locData EXCEPT ![c] = ZeroLocData]
                   /\ UNCHANGED pending
              ELSE /\ pending' = [pending EXCEPT ![c] = rec]
                   /\ pc' = [pc EXCEPT ![c] = "save"]
                   /\ UNCHANGED <<locData, reply>>
    /\ UNCHANGED <<httpStatus, ident, open, inbox, hubVars, records,
                   published, envVars>>

SavedReply(rec) ==
    [kind |-> "saved", event_type |-> rec.EventType,
     distance |-> rec.DistanceFromLast, is_moving |-> rec.IsMoving,
     sequence_id |-> rec.ID]

\* a session that goes on to publish whether or not Create succeeded
AfterCreate_always(created) == "publish"

\* a session that never goes on to publish
AfterCreate_never(created) == "read"

\* saveAndPublishLocation: config.DB.Create and the reply to the driver;
\* what the session does next
AfterCreate(created) == IF created THEN "publish" ELSE "read"

DriverSave(c, faults) ==
    /\ ~Crashed
    /\ pc[c] = "save"
    /\ \E created \in {~f : f \in faults} :
          LET rec == [pending[c] EXCEPT !.ID = Len(records) + 1]
          IN  /\ records' = IF created THEN Append(records, rec) ELSE records
              /\ reply' = [reply EXCEPT ![c] =
                     IF created THEN SavedReply(rec)
                     ELSE ErrorReply("Failed to save location.")]
              /\ pc' = [pc EXCEPT ![c] = AfterCreate(created)]
              /\ IF AfterCreate(created) = "publish"
                 THEN /\ pending' = [pending EXCEPT ![c] =
                             IF created THEN rec ELSE @]
                      /\ UNCHANGED locData
                 ELSE /\ pending' = [pending EXCEPT ![c] = ZeroRecord]
                      /\ locData' = [locData EXCEPT ![c] = ZeroLocData]
    /\ UNCHANGED <<httpStatus, ident, open, inbox, hubVars,
                   published, envVars>>

\* the message saveAndPublishLocation hands to the hub
BroadcastData(rec, vehicleID, saccoID) ==
    [driver_id |-> rec.DriverID, vehicle_id |-> vehicleID,
     latitude |-> rec.Latitude, longitude |-> rec.Longitude,
     bearing |-> rec.Bearing, event_type |-> rec.EventType,
     is_moving |-> rec.IsMoving, sacco_id |-> <<"float64", saccoID>>,
     sequence_id |-> rec.ID]

\* Where("driver_id = ?").First(&vehicle): the vehicle's id, 0 if the query
\* fails or finds none
VehicleID(driverID, dbError) ==
    IF ~dbError /\ \E v \in VehicleTable : v.DriverID = driverID
    THEN (CHOOSE v \in VehicleTable : v.DriverID = driverID).ID
    ELSE 0

\* saveAndPublishLocation: the vehicle query and locationHub.PublishLocation
DriverPublish(c, faults) ==
    /\ ~Crashed
    /\ pc[c] = "publish"
    /\ \E dbError \in faults :
          broadcast' = PublishLocation(broadcast,
                           BroadcastData(pending[c],
                               VehicleID(pending[c].DriverID, dbError),
                               ident[c].saccoID))
    /\ published' = Append(published, pending[c].ID)
    /\ pc' = [pc EXCEPT ![c] = "read"]
    /\ pending' = [pending EXCEPT ![c] = ZeroRecord]
    /\ locData' = [locData EXCEPT ![c] = ZeroLocData]
    /\ UNCHANGED <<httpStatus, ident, open, inbox, reply, saccoClients,
                   hubMsg, mu, tasks, delivered, records, envVars>>

(***************************************************************************)
(* Environment: the peers and the clock.                                   *)
(***************************************************************************)
\* what a watcher's client may send: anything, it is not read as a sample
WatcherFrames == {[Payload(0, 0, 0, <<>>) EXCEPT !.syntax = FALSE]}

\* the peer of c sends a frame, the max-th at most
Send(c, p, max) ==
    /\ pc[c] \in {"read", "watch"}
    /\ (pc[c] = "watch") = (p \in WatcherFrames)
    /\ open[c]
    /\ inbox[c] = <<>>
    /\ sent < max
    /\ inbox' = [inbox EXCEPT ![c] = Append(@, p)]
    /\ sent' = sent + 1
    /\ UNCHANGED <<connVars, driverVars, hubVars, records, published, now,
                   ticks, hubCalls>>

\* the peer of c goes away, or the transport breaks; the session and the
\* hub see it at their next read or write, so it is taken to happen while
\* the session waits in ReadMessage
Disconnect(c) ==
    /\ pc[c] \in {"read", "watch"}
    /\ inbox[c] = <<>>
    /\ open[c]
    /\ open' = [open EXCEPT ![c] = FALSE]
    /\ UNCHANGED <<pc, httpStatus, ident, inbox, driverVars, hubVars,
                   records, published, envVars>>

\* time passes; the clock is read by the classifier only, so it is taken
\* to advance right before a classification
Tick ==
    /\ ticks < MaxTicks
    /\ \E c \in Conns : pc[c] = "lookup"
    /\ now' = now + periodicSaveInterval
    /\ ticks' = ticks + 1
    /\ UNCHANGED <<connVars, inbox, driverVars, hubVars, records, published,
                   sent, hubCalls>>

(***************************************************************************)
(* Specifications.                                                         *)
(***************************************************************************)
\* the database may fail any query / it never does
Faults == BOOLEAN
NoFaults == {FALSE}

\* the handler goroutine of connection c
Watcher(c) ==
    \/ WatcherRegister(c)
    \/ WatcherRead(c)
    \/ WatcherReadError(c)
    \/ WatcherUnregister(c)

Driver(c, faults) ==
    \/ DriverRead(c)
    \/ DriverReadError(c)
    \/ DriverLookup(c, faults)
    \/ DriverSave(c, faults)
    \/ DriverPublish(c, faults)

\* the hub's run loop and its delivery goroutines
Hub ==
    \/ HubReceive
    \/ HubLock(MaxTasks)
    \/ HubFanout
    \/ \E t \in tasks : TaskWriteBegin(t)
    \/ \E t \in tasks : TaskWritePanic(t)
    \/ \E t \in tasks : TaskWriteEnd(t)
    \/ \E t \in tasks : TaskWriteError(t)

\* the pipeline: one reporter, two watchers, well-formed samples that are
\* all stored
Next ==
    \/ \E c \in Conns : \E req \in RequestsOf(c) :
          HandleLocationWebSocket(c, req)
    \/ \E c \in Conns : Watcher(c)
    \/ \E c \in Conns : Driver(c, NoFaults)
    \/ Hub
    \/ \E c \in Conns, p \in PipelineFrames \cup WatcherFrames :
          Send(c, p, MaxFrames)
    \/ \E c \in Conns : Disconnect(c)

Spec == Init /\ [][Next]_vars

\* one reporter connection and the sacco's watcher: every kind of upgrade
\* request, every kind of frame, and the clock
NextSession ==
    \/ \E req \in RequestsOf("c1") \cup BadRequests :
          HandleLocationWebSocket("c1", req)
    \/ \E req \in RequestsOf("c2") : HandleLocationWebSocket("c2", req)
    \/ Watcher("c2")
    \/ Driver("c1", Faults)
    \/ Hub
    \/ \E p \in Frames : Send("c1", p, MaxFrames)
    \/ \E p \in WatcherFrames : Send("c2", p, MaxFrames)
    \/ \E c \in {"c1", "c2"} : Disconnect(c)
    \/ Tick

SpecSession == Init /\ [][NextSession]_vars

\* queue saturation: one reporter whose samples alternate between two
\* places 11 m apart, so that every one is stored and published, and the
\* hub's run loop; nobody watches
BurstFrame(n) == IF n % 2 = 0 THEN AtOrigin ELSE MovedEast

NextBurst ==
    \/ \E req \in RequestsOf("c1") : HandleLocationWebSocket("c1", req)
    \/ DriverRead("c1")
    \/ DriverLookup("c1", NoFaults)
    \/ DriverSave("c1", NoFaults)
    \/ DriverPublish("c1", NoFaults)
    \/ HubReceive
    \/ HubLock(MaxTasks)
    \/ HubFanout
    \/ Send("c1", BurstFrame(sent), BurstFrames)

SpecBurst == Init /\ [][NextBurst]_vars

\* the three-sample run: the sacco's watcher is registered before the
\* reporter's device sends its first sample and stays; the device sends the
\* next sample when the session is back in its read loop; the wall clock
\* stays within a minute of the samples; a commuter may watch another sacco
ScenarioFrames == <<AtOrigin, MovedEast, StillEast>>

NextScenario ==
    \/ \E req \in RequestsOf("c1") : HandleLocationWebSocket("c1", req)
    \/ \E req \in RequestsOf("c2") : HandleLocationWebSocket("c2", req)
    \/ HandleLocationWebSocket("c3", Request("commuter", <<"2">>, TRUE))
    \/ \E c \in {"c2", "c3"} : WatcherRegister(c)
    \/ DriverRead("c1")
    \/ DriverLookup("c1", NoFaults)
    \/ DriverSave("c1", NoFaults)
    \/ DriverPublish("c1", NoFaults)
    \/ HubReceive
    \/ HubLock(MaxTasks)
    \/ HubFanout
    \/ \E t \in tasks : TaskWriteBegin(t)
    \/ \E t \in tasks : TaskWritePanic(t)
    \/ \E t \in tasks : TaskWriteEnd(t)
    \/ /\ pc["c2"] = "watch"
       /\ sent < Len(ScenarioFrames)
       /\ Send("c1", ScenarioFrames[sent + 1], Len(ScenarioFrames))

SpecScenario == Init /\ [][NextScenario]_vars

\* delivery under fair scheduling: one reporter, the sacco's watcher and a
\* commuter watching the same sacco, whose clients send nothing; every
\* goroutine of the hub that can take a step eventually takes one, the peers
\* are under no obligation.
\* One goroutine more than in the other runs may be alive, so that a second
\* message can fan out while a write of the first is in progress.
NextLive ==
    \/ \E c \in {"c1", "c2"} : \E req \in RequestsOf(c) :
          HandleLocationWebSocket(c, req)
    \/ HandleLocationWebSocket("c3", Request("commuter", <<"1">>, TRUE))
    \/ \E c \in {"c2", "c3"} : WatcherRegister(c)
    \/ \E c \in {"c2", "c3"} : WatcherReadError(c)
    \/ \E c \in {"c2", "c3"} : WatcherUnregister(c)
    \/ Driver("c1", NoFaults)
    \/ HubReceive
    \/ HubLock(MaxTasks + 1)
    \/ HubFanout
    \/ \E t \in tasks : TaskWriteBegin(t)
    \/ \E t \in tasks : TaskWritePanic(t)
    \/ \E t \in tasks : TaskWriteEnd(t)
    \/ \E t \in tasks : TaskWriteError(t)
    \/ \E p \in PipelineFrames : Send("c1", p, MaxFrames)
    \/ \E c \in Conns : Disconnect(c)

\* run is one goroutine: at any moment one of its three steps is its next
\* one.  The writer goroutines are scheduled like any other goroutine.
\* The tenth of a second run sleeps after a close error is not modelled.
FairScheduling ==
    /\ WF_vars(HubReceive \/ HubLock(MaxTasks + 1) \/ HubFanout)
    /\ WF_vars(\E t \in tasks :
                  TaskWriteBegin(t) \/ TaskWriteEnd(t) \/ TaskWriteError(t))

SpecLive == Init /\ [][NextLive]_vars /\ FairScheduling

\* two sessions of one reporter: the same driver's token on two connections,
\* each handled by its own goroutine against the one database
TwinConns == {"c1", "c3"}

NextTwin ==
    \/ \E c \in TwinConns :
          HandleLocationWebSocket(c, Request("driver1", <<>>, TRUE))
    \/ \E c \in TwinConns : Driver(c, NoFaults)
    \/ \E c \in TwinConns, p \in PipelineFrames : Send(c, p, MaxFrames)
    \/ \E c \in TwinConns : Disconnect(c)

SpecTwin == Init /\ [][NextTwin]_vars

\* the hub's membership methods called directly, in any order and with any
\* arguments, as a caller of the exported methods may
HubSaccos == {1, 2}

Remember(call) ==
    IF hubCalls = <<>> THEN <<call>> ELSE <<hubCalls[Len(hubCalls)], call>>

CallRegister(saccoID, conn) ==
    /\ mu = "free"
    /\ saccoClients' = RegisterClient(saccoClients, saccoID, conn)
    /\ hubCalls' = Remember([op |-> "register", saccoID |-> saccoID,
                             conn |-> conn, before |-> saccoClients])
    /\ UNCHANGED <<connVars, inbox, driverVars, broadcast, hubMsg, mu, tasks,
                   delivered, records, published, now, ticks, sent>>

CallUnregister(saccoID, conn) ==
    /\ mu = "free"
    /\ saccoClients' = UnregisterClient(saccoClients, saccoID, conn)
    /\ hubCalls' = Remember([op |-> "unregister", saccoID |-> saccoID,
                             conn |-> conn, before |-> saccoClients])
    /\ UNCHANGED <<connVars, inbox, driverVars, broadcast, hubMsg, mu, tasks,
                   delivered, records, published, now, ticks, sent>>

NextHub ==
    \/ \E sc \in HubSaccos : \E c \in Conns : CallRegister(sc, c)
    \/ \E sc \in HubSaccos : \E c \in Conns : CallUnregister(sc, c)

SpecHub == Init /\ [][NextHub]_vars

\* classification: a reporter session that has one frame to read, with no
\* record or one record of the reporter in the table; the sample's place,
\* speed and device time, the previous record's moving flag and the wall
\* clock are drawn from sets that straddle every threshold of the classifier
ClassifyLongitudes == {0, 4, 5}          \* 0 m, 4.4 m and 5.6 m east
ClassifySpeeds == {-3, 0, 4, 5, 6, 9, 10, 11}
ClassifyStamps ==
    {Stamp(9, 59, 59, <<"Z">>), Stamp(10, 0, 0, <<"Z">>),
     Stamp(10, 0, 9, <<"Z">>), Stamp(10, 0, 10, <<"Z">>),
     Stamp(10, 0, 59, <<"Z">>), Stamp(10, 1, 0, <<"Z">>)}

ClassifyFrames ==
    {Payload(1, lon, speed, ts) :
        lon \in ClassifyLongitudes, speed \in ClassifySpeeds,
        ts \in ClassifyStamps}

\* the tables the session may find: empty, or one record of driver 1 at the
\* origin, stamped StartTime
PreviousRecords ==
    {<<>>} \cup
    {<<[ZeroRecord EXCEPT !.ID = 1, !.DriverID = 1, !.IsMoving = m,
                          !.Timestamp = StartTime, !.EventType = "move"]>> :
        m \in BOOLEAN}

\* the wall clock: 0 s, 59 s and 60 s after the previous record's timestamp
ClassifyClocks ==
    {StartTime, StartTime + periodicSaveInterval - 1,
     StartTime + periodicSaveInterval}

InitClassify ==
    LET auth == authenticateUserForWebSocket(Request("driver1", <<>>, TRUE))
    IN  /\ pc = [c \in Conns |-> IF c = "c1" THEN "read" ELSE "idle"]
        /\ httpStatus = [c \in Conns |->
               IF c = "c1" THEN StatusSwitchingProtocols ELSE 0]
        /\ ident = [c \in Conns |->
               IF c = "c1"
               THEN [role |-> auth.role, saccoID |-> auth.saccoID,
                     driverID |-> auth.driverID]
               ELSE ZeroIdent]
        /\ open = [c \in Conns |-> c = "c1"]
        /\ \E p \in ClassifyFrames :
              inbox = [c \in Conns |-> IF c = "c1" THEN <<p>> ELSE <<>>]
        /\ locData = [c \in Conns |-> ZeroLocData]
        /\ pending = [c \in Conns |-> ZeroRecord]
        /\ reply = [c \in Conns |-> NoReply]
        /\ saccoClients = <<>>
        /\ broadcast = <<>>
        /\ hubMsg = <<>>
        /\ mu = "free"
        /\ tasks = {}
        /\ delivered = [c \in Conns |-> <<>>]
        /\ records \in PreviousRecords
        /\ published = <<>>
        /\ now \in ClassifyClocks
        /\ ticks = 0
        /\ sent = 1
        /\ hubCalls = <<>>

NextClassify ==
    \/ DriverRead("c1")
    \/ DriverLookup("c1", Faults)
    \/ DriverSave("c1", NoFaults)
    \/ DriverPublish("c1", NoFaults)

SpecClassify == InitClassify /\ [][NextClassify]_vars

(***************************************************************************)
(* Properties.                                                             *)
(***************************************************************************)
Range(q) == {q[i] : i \in 1..Len(q)}

\* c is a member of some sacco's set in the registry
Registered(c) == \E sc \in DOMAIN saccoClients : c \in saccoClients[sc]

\* the messages on their way through the hub
InHub == Range(broadcast) \cup Range(hubMsg) \cup {t.msg : t \in tasks}

\* the registry clients with conn taken out of saccoID's set, and no entry
\* left for an emptied set
WithoutConn(clients, saccoID, conn) ==
    LET rest(sc) == IF sc = saccoID THEN clients[sc] \ {conn}
                    ELSE clients[sc]
    IN  [sc \in {u \in DOMAIN clients : rest(u) # {}} |-> rest(sc)]

\* C1: a message is handed to PublishLocation only for a record that was
\* appended before, once per record and carrying that record's id and
\* driver, and every appended record has been published or is about to be
\* published by the session that appended it.
C1_PublishIffPersisted ==
    /\ \A i \in 1..Len(published) : published[i] \in 1..Len(records)
    /\ \A i, j \in 1..Len(published) :
          published[i] = published[j] => i = j
    /\ \A id \in 1..Len(records) :
          \/ id \in Range(published)
          \/ \E c \in Conns : pc[c] = "publish" /\ pending[c].ID = id
    /\ \A m \in InHub :
          /\ m.sequence_id \in Range(published)
          /\ m.driver_id = records[m.sequence_id].DriverID

\* one sample was stored and published, another one failed to be stored
C1_Witness ==
    /\ published = <<1>>
    /\ Len(records) = 1
    /\ reply["c1"] = ErrorReply("Failed to save location.")

\* C2: the messages of one reporter are written to a watcher's connection
\* in the order in which they were persisted.
C2_DeliveredInPersistedOrder ==
    \A c \in Conns : \A i, j \in 1..Len(delivered[c]) :
        (/\ i < j
         /\ records[delivered[c][i]].DriverID
                = records[delivered[c][j]].DriverID)
            => delivered[c][i] < delivered[c][j]

\* a text frame that is not a well-formed sample: not JSON, or a timestamp
\* that is missing, shorter than 6 characters or not a timestamp
Malformed(p) ==
    /\ p.mtype = "text"
    /\ \/ ~p.syntax
       \/ Len(p.timestamp) < 6
       \/ ~ParseRFC3339(p.timestamp).ok
            /\ ~ParseRFC3339(p.timestamp \o <<"Z">>).ok

\* C3: reading a malformed frame leaves the session in its read loop with
\* the connection up, replies with an error, and stores and publishes
\* nothing.
C3_MalformedFrameFailsFrameOnly ==
    [][\A c \in Conns :
         (/\ pc[c] = "read"
          /\ inbox[c] # <<>>
          /\ inbox'[c] = <<>>
          /\ Malformed(Head(inbox[c])))
            => /\ pc'[c] = "read"
               /\ open'[c] = open[c]
               /\ reply'[c] = ErrorReply("Invalid location data format.")
               /\ records' = records
               /\ published' = published
               /\ broadcast' = broadcast]_vars

\* a delivery goroutine whose write failed ends in this step
EndsFailed(t) == t \in tasks /\ t.st \in {"close", "other"} /\ t \notin tasks'

\* no goroutine is left or started for the same message and connection
NotRetried(t) ==
    ~\E u \in tasks' : u.conn = t.conn /\ u.msg = t.msg

C5_PublishNeverBlocks ==
    /\ [](Len(broadcast) <= BroadcastCap)
    /\ [](\A c \in Conns :
             pc[c] = "publish" => ENABLED DriverPublish(c, NoFaults))
    /\ [][\A c \in Conns :
            (pc[c] = "publish" /\ pc'[c] # "publish")
               => /\ pc'[c] = "read"
                  /\ Len(broadcast) = BroadcastCap => broadcast' = broadcast
                  /\ Len(broadcast) < BroadcastCap =>
                        /\ Len(broadcast') = Len(broadcast) + 1
                        /\ SubSeq(broadcast', 1, Len(broadcast)) = broadcast
                        /\ broadcast'[Len(broadcast')].sequence_id
                               = pending[c].ID]_vars

\* a message was dropped: one more message was published than the full
\* channel holds, and none has been received yet
C5_Witness ==
    /\ Len(broadcast) = BroadcastCap
    /\ broadcast[1].sequence_id = 1
    /\ Len(published) = BroadcastCap + 1

\* C6: no sacco entry of the registry has an empty connection set.
C6_NoEmptyEntry == \A sc \in DOMAIN saccoClients : saccoClients[sc] # {}

\* two watchers of one sacco were registered, both have left, and the
\* registry is empty again
C6_Witness ==
    /\ pc["c2"] = "closed"
    /\ pc["c3"] = "closed"
    /\ ident["c3"].saccoID = ident["c2"].saccoID
    /\ DOMAIN saccoClients = {}

\* the classifier's verdict on the sample session c is processing
Significant(c) ==
    LET ld == locData[c]
        last == LastLocation(records, ld.DriverID)
    IN  \/ last.ID = 0
        \/ shouldSaveLocation(
               calculateDistance(last.Latitude, last.Longitude, ld.Latitude,
                                 ld.Longitude),
               IF ld.Speed < 0 THEN 0 ELSE ld.Speed,
               ld.Timestamp - last.Timestamp, last, now)[1]

\* C7: when the sample a session is classifying is not significant, the
\* session returns to its read loop having stored and published nothing,
\* with nothing left to save, and its reply is the "no change" text (or the
\* error of the failed query).
C7_InsignificantNotStored ==
    [][\A c \in Conns :
         (pc[c] = "lookup" /\ pc'[c] # "lookup" /\ ~Significant(c))
            => /\ pc'[c] = "read"
               /\ pending'[c] = ZeroRecord
               /\ records' = records
               /\ published' = published
               /\ broadcast' = broadcast
               /\ reply'[c] \in
                     {IgnoredReply,
                      ErrorReply("Database error fetching last location.")}
      ]_vars

\* a sample was answered with "no change" after another one was stored
C7_Witness ==
    /\ reply["c1"] = IgnoredReply
    /\ Len(records) = 1
    /\ pc["c1"] = "read"

\* C8: the connection of a watcher session that has ended is in no set of
\* the registry.
C8_EndedWatcherNotRegistered ==
    \A c \in Conns : pc[c] = "closed" => ~Registered(c)

\* both watchers have ended, one for each role, while a message was on its
\* way to them
C8_Witness ==
    /\ pc["c2"] = "closed" /\ ident["c2"].role = "sacco"
    /\ pc["c3"] = "closed" /\ ident["c3"].role = "commuter"
    /\ Len(published) >= 1

\* C9: when Create fails, the session replies with the error to its own
\* driver, returns to its read loop with the connection as it was, drops
\* the record, and nothing is published or written to anyone else.
C9_FailedSaveNotPublished ==
    [][\A c \in Conns :
         (pc[c] = "save" /\ pc'[c] # "save" /\ records' = records)
            => /\ pc'[c] = "read"
               /\ open' = open
               /\ reply' = [reply EXCEPT ![c] =
                                ErrorReply("Failed to save location.")]
               /\ pending'[c] = ZeroRecord
               /\ published' = published
               /\ broadcast' = broadcast
               /\ delivered' = delivered]_vars

\* a save has failed, the session is back in its read loop and the next
\* frame has arrived
C9_Witness ==
    /\ reply["c1"] = ErrorReply("Failed to save location.")
    /\ records = <<>>
    /\ pc["c1"] = "read"
    /\ open["c1"]
    /\ inbox["c1"] # <<>>

\* a frame that decodes to a sample of another driver than the session's
Mismatched(p, c) ==
    /\ p.mtype = "text"
    /\ UnmarshalJSON(p).kind = "ok"
    /\ p.driver_id # ident[c].driverID

\* C10: reading a frame with another driver's id leaves the session in its
\* read loop with the connection up, replies with the "unauthorized" error,
\* and no sample is taken on, stored or published.
C10_MismatchRejected ==
    [][\A c \in Conns :
         (/\ pc[c] = "read"
          /\ inbox[c] # <<>>
          /\ inbox'[c] = <<>>
          /\ Mismatched(Head(inbox[c]), c))
            => /\ pc'[c] = "read"
               /\ open'[c] = open[c]
               /\ reply'[c] = ErrorReply("Unauthorized location update.")
               /\ locData'[c] = locData[c]
               /\ pending'[c] = pending[c]
               /\ records' = records
               /\ published' = published
               /\ broadcast' = broadcast]_vars

\* a frame with another driver's id was rejected, the session is in its
\* read loop and the next frame has arrived
C10_Witness ==
    /\ reply["c1"] = ErrorReply("Unauthorized location update.")
    /\ pc["c1"] = "read"
    /\ open["c1"]
    /\ inbox["c1"] # <<>>

(***************************************************************************)
(* The classifier, as the session applies it to the sample it has decoded. *)
(***************************************************************************)
\* the reporter of c's sample has a record / the newest one
HasPrevious(c) ==
    \E i \in 1..Len(records) : records[i].DriverID = locData[c].DriverID

Previous(c) ==
    records[CHOOSE i \in 1..Len(records) :
               /\ records[i].DriverID = locData[c].DriverID
               /\ \A j \in i + 1..Len(records) :
                     records[j].DriverID # locData[c].DriverID]

\* metres (in micrometres) and seconds between the previous record and the
\* sample, and the sample's speed with negative readings taken as 0
SampleDistance(c) ==
    EarthUnit * (Abs(locData[c].Latitude - Previous(c).Latitude)
                     + Abs(locData[c].Longitude - Previous(c).Longitude))

SampleElapsed(c) == locData[c].Timestamp - Previous(c).Timestamp

SampleSpeed(c) == IF locData[c].Speed < 0 THEN 0 ELSE locData[c].Speed

\* this step classifies the sample of session c (the query did not fail)
Classifies(c) ==
    /\ pc[c] = "lookup"
    /\ pc'[c] # "lookup"
    /\ ~(/\ pc'[c] = "read"
          /\ reply'[c] = ErrorReply("Database error fetching last location."))

\* ... as significant with this event: the record goes on to be saved
ClassifiedAs(c, event) ==
    /\ pc'[c] = "save"
    /\ pending'[c].EventType = event
    /\ pending'[c].DriverID = locData[c].DriverID

\* ... as insignificant: the session answers "no change" and reads on
ClassifiedInsignificant(c) ==
    /\ pc'[c] = "read"
    /\ reply'[c] = IgnoredReply
    /\ pending'[c] = ZeroRecord

\* C11: a sample of a reporter without a previous record is classified as
\* significant with event initial, wherever it is, whatever its speed and
\* timestamp.
C11_FirstSampleInitial ==
    [][\A c \in Conns :
         (Classifies(c) /\ ~HasPrevious(c)) => ClassifiedAs(c, "initial")]_vars

\* a first sample away from the origin, with a negative speed, stamped a
\* minute after the server's start, was stored as initial
C11_Witness ==
    /\ Len(records) = 1
    /\ records[1].EventType = "initial"
    /\ records[1].Longitude # 0
    /\ records[1].Speed < 0
    /\ records[1].Timestamp = StartTime + periodicSaveInterval

\* C12: a sample 5 m or more from the previous record is classified as
\* significant with event move, whatever the speed, the previous moving
\* flag and the elapsed time.
C12_DistanceMeansMove ==
    [][\A c \in Conns :
         (/\ Classifies(c)
          /\ HasPrevious(c)
          /\ SampleDistance(c) >= minDistanceForSave)
            => ClassifiedAs(c, "move")]_vars

\* a move was stored for a sample that also met the stopped rule and was
\* stamped 60 s after the previous record
C12_Witness ==
    /\ Len(records) = 2
    /\ records[2].EventType = "move"
    /\ records[1].IsMoving
    /\ records[2].Speed < maxSpeedForStopped
    /\ records[2].Timestamp - records[1].Timestamp >= periodicSaveInterval

\* C13: less than 5 m from a previous record that was moving, with a speed
\* (negative readings taken as 0) under 1.0 m/s: the sample is classified
\* as significant with event stopped when 10 s or more have elapsed between
\* the two timestamps, and not as stopped when less has elapsed.
C13_StoppedAfterTenSeconds ==
    [][\A c \in Conns :
         (/\ Classifies(c)
          /\ HasPrevious(c)
          /\ SampleDistance(c) < minDistanceForSave
          /\ Previous(c).IsMoving
          /\ SampleSpeed(c) < maxSpeedForStopped)
            => IF SampleElapsed(c) >= minTimeDiffForSave
               THEN ClassifiedAs(c, "stopped")
               ELSE ~ClassifiedAs(c, "stopped")]_vars

\* a stop was stored for a sample with a negative speed, 10 s after the
\* previous record
C13_Witness ==
    /\ Len(records) = 2
    /\ records[2].EventType = "stopped"
    /\ records[1].IsMoving
    /\ records[2].Speed < 0
    /\ records[2].Timestamp - records[1].Timestamp = minTimeDiffForSave

\* C14: less than 5 m from a previous record that was not moving, with a
\* speed of 0.5 m/s or more, 10 s or more after it: the sample is
\* classified as significant with event started.
C14_StartedAfterTenSeconds ==
    [][\A c \in Conns :
         (/\ Classifies(c)
          /\ HasPrevious(c)
          /\ SampleDistance(c) < minDistanceForSave
          /\ ~Previous(c).IsMoving
          /\ SampleSpeed(c) >= minSpeedForMoving
          /\ SampleElapsed(c) >= minTimeDiffForSave)
            => ClassifiedAs(c, "started")]_vars

\* a start was stored for a sample at exactly 0.5 m/s, exactly 10 s after
\* the previous record
C14_Witness ==
    /\ Len(records) = 2
    /\ records[2].EventType = "started"
    /\ ~records[1].IsMoving
    /\ records[2].Speed = minSpeedForMoving
    /\ records[2].Timestamp - records[1].Timestamp = minTimeDiffForSave

\* C15: when a previous record exists and none of the move, stopped and
\* started rules matches, the sample is classified as periodic if 60 s or
\* more have elapsed between the previous record's timestamp and the
\* sample's timestamp, and as insignificant otherwise.
C15_PeriodicBySampleElapsed ==
    [][\A c \in Conns :
         (/\ Classifies(c)
          /\ HasPrevious(c)
          /\ SampleDistance(c) < minDistanceForSave
          /\ ~(/\ Previous(c).IsMoving
                /\ SampleSpeed(c) < maxSpeedForStopped
                /\ SampleElapsed(c) >= minTimeDiffForSave)
          /\ ~(/\ ~Previous(c).IsMoving
                /\ SampleSpeed(c) >= minSpeedForMoving
                /\ SampleElapsed(c) >= minTimeDiffForSave))
            => IF SampleElapsed(c) >= periodicSaveInterval
               THEN ClassifiedAs(c, "periodic")
               ELSE ClassifiedInsignificant(c)]_vars

\* all frames of the three-sample run were sent and processed, and the hub
\* has nothing left to deliver
ScenarioDone ==
    /\ sent = Len(ScenarioFrames)
    /\ pc["c1"] = "read"
    /\ inbox["c1"] = <<>>
    /\ broadcast = <<>>
    /\ hubMsg = <<>>
    /\ tasks = {}

\* C16: in the three-sample run (origin at T, 11 m east at T+5 s, the same
\* place at T+7 s, one watcher registered throughout) never more than two
\* records are stored, and when the run is over the table holds an initial
\* record with id 1 and a move record with id 2, the watcher has received
\* exactly the messages 1 and 2 in this order, and the third sample was
\* answered "no change".
C16_ThreeFrameScenario ==
    /\ Len(records) <= 2
    /\ ScenarioDone =>
          /\ Len(records) = 2
          /\ records[1].ID = 1 /\ records[1].EventType = "initial"
          /\ records[2].ID = 2 /\ records[2].EventType = "move"
          /\ published = <<1, 2>>
          /\ delivered["c2"] = <<1, 2>>
          /\ delivered["c3"] = <<>>
          /\ reply["c1"] = IgnoredReply

(***************************************************************************)
(* Algebra of the hub's membership methods.                                *)
(***************************************************************************)
\* the last two calls were op1 and then op2, with the same arguments
LastTwoCalls(op1, op2) ==
    /\ Len(hubCalls) = 2
    /\ hubCalls[1].op = op1
    /\ hubCalls[2].op = op2
    /\ hubCalls[1].saccoID = hubCalls[2].saccoID
    /\ hubCalls[1].conn = hubCalls[2].conn

\* the set of saccoID in the registry clients, empty without an entry
ClientsOf(clients, saccoID) ==
    IF saccoID \in DOMAIN clients THEN clients[saccoID] ELSE {}

C18_MembershipIdempotent ==
    /\ LastTwoCalls("register", "register")
          => /\ saccoClients = hubCalls[2].before
             /\ hubCalls[2].conn
                    \in ClientsOf(saccoClients, hubCalls[2].saccoID)
    /\ LastTwoCalls("unregister", "unregister")
          => /\ saccoClients = hubCalls[2].before
             /\ hubCalls[2].conn
                    \notin ClientsOf(saccoClients, hubCalls[2].saccoID)
    /\ \A i \in 1..Len(hubCalls) :
          (/\ hubCalls[i].op = "unregister"
           /\ hubCalls[i].conn
                  \notin ClientsOf(hubCalls[i].before, hubCalls[i].saccoID))
             => (IF i = Len(hubCalls) THEN saccoClients
                 ELSE hubCalls[i + 1].before) = hubCalls[i].before

\* c2 was unregistered twice from sacco 1, of which it was the only
\* watcher: the second call found no entry for the sacco
C18_Witness ==
    /\ LastTwoCalls("unregister", "unregister")
    /\ hubCalls[1].saccoID = 1
    /\ hubCalls[1].conn = "c2"
    /\ ClientsOf(hubCalls[1].before, 1) = {"c2"}
    /\ 1 \notin DOMAIN hubCalls[2].before
    /\ 2 \in DOMAIN saccoClients

(***************************************************************************)
(* Upgrade requests that are turned away.                                  *)
(***************************************************************************)
SupportedRoles == {"driver", "sacco", "commuter"}

\* the request carries no credential, or one that does not verify
NoCredential(req) == req.token = "" \/ req.token \notin DOMAIN TokenClaims

\* the credential verifies and names a role that has no session kind
UnsupportedRole(req) ==
    /\ req.token \in DOMAIN TokenClaims
    /\ TokenClaims[req.token].Role \notin SupportedRoles

\* the role's profile does not exist
NoProfile(req) ==
    /\ req.token \in DOMAIN TokenClaims
    /\ LET claims == TokenClaims[req.token]
       IN  \/ /\ claims.Role = "driver"
              /\ ~\E d \in DriverTable : d.UserID = claims.UserID
           \/ /\ claims.Role = "sacco"
              /\ ~\E sc \in SaccoTable : sc.UserID = claims.UserID
           \/ /\ claims.Role = "commuter"
              /\ ~\E u \in UserTable : u.ID = claims.UserID

\* a commuter that names no sacco to watch
NoScope(req) ==
    /\ req.token \in DOMAIN TokenClaims
    /\ TokenClaims[req.token].Role = "commuter"
    /\ req.sacco_id = <<>>

IdentityFails(req) ==
    NoCredential(req) \/ UnsupportedRole(req) \/ NoProfile(req) \/ NoScope(req)

\* C19: an upgrade request whose identity cannot be resolved is answered
\* without a session: the connection is never opened, has no identity and
\* the hub, the table and every session are left as they are; a rejected
\* request stays rejected, is in no registry set, and no step of a reporter
\* or watcher loop can run for it.
C19_RejectedBeforeSession ==
    /\ [][\A c \in Conns : \A req \in BadRequests :
            (IdentityFails(req) /\ HandleLocationWebSocket(c, req))
               => /\ pc'[c] = "rejected"
                  /\ ~open'[c]
                  /\ ident'[c] = ZeroIdent
                  /\ UNCHANGED <<hubVars, driverVars, inbox, records,
                                 published>>]_vars
    /\ [][\A c \in Conns : pc[c] = "rejected" => pc'[c] = "rejected"]_vars
    /\ [](\A c \in Conns :
             pc[c] = "rejected"
                => /\ ~Registered(c)
                   /\ ~ENABLED Watcher(c)
                   /\ ~ENABLED Driver(c, Faults))

\* a request was turned away as unauthenticated while the sacco's watcher
\* is registered and watching
C19_Witness ==
    /\ pc["c1"] = "rejected"
    /\ httpStatus["c1"] = StatusUnauthorized
    /\ pc["c2"] = "watch"
    /\ DOMAIN saccoClients = {1}
    /\ saccoClients[1] = {"c2"}

\* C20: a request whose credential names an unsupported role is answered
\* with Forbidden, a request without a credential or with one that does
\* not verify is answered with Unauthorized.
C20_RejectionKindsDistinct ==
    [][\A c \in Conns : \A req \in BadRequests :
         HandleLocationWebSocket(c, req)
            => /\ UnsupportedRole(req) => httpStatus'[c] = StatusForbidden
               /\ NoCredential(req) => httpStatus'[c] = StatusUnauthorized
      ]_vars

(***************************************************************************)
(* The hub's run loop and its delivery goroutines.                         *)
(***************************************************************************)
\* this step is the body of run's loop, from after Lock to Unlock
RunsLoopBody == mu = "run" /\ mu' = "free"

\* C21: when run handles a message whose sacco has no entry in the
\* registry, it starts no goroutine, writes to nobody, leaves the registry
\* as it is, does not fail, and is ready for the next message, which it
\* can receive whenever one is queued.
C21_NoWatchersNoDelivery ==
    /\ [][(/\ RunsLoopBody
            /\ hubMsg[1].sacco_id[2] \notin DOMAIN saccoClients)
              => /\ tasks' = tasks
                 /\ delivered' = delivered
                 /\ saccoClients' = saccoClients
                 /\ hubMsg' = <<>>
                 /\ ~Crashed']_vars
    /\ [](\/ Crashed
          \/ hubMsg # <<>>
          \/ broadcast = <<>>
          \/ ENABLED HubReceive)

\* two messages for sacco 1 were published and handled while only sacco 2
\* had a watcher; nothing was delivered and nothing is left in the hub
C21_Witness ==
    /\ Len(published) = 2
    /\ DOMAIN saccoClients = {2}
    /\ pc["c2"] = "idle"
    /\ broadcast = <<>>
    /\ hubMsg = <<>>
    /\ tasks = {}
    /\ \A c \in Conns : delivered[c] = <<>>

\* a goroutine exists that has not called WriteJSON yet
Unwritten == \E t \in tasks : t.st = "spawned"

\* C22: under fair scheduling every message in the channel is eventually
\* received by run (the channel is first-in first-out, so this is to say that
\* the channel is empty again and again); the loop body starts a goroutine
\* for every connection that is in the message's sacco set at that moment;
\* and every such goroutine eventually calls WriteJSON.
C22_EveryMessageDelivered ==
    /\ []<>(broadcast = <<>> /\ hubMsg = <<>>)
    /\ [][RunsLoopBody =>
            \A c \in ClientsOf(saccoClients, hubMsg[1].sacco_id[2]) :
                \E t \in tasks' : t.conn = c /\ t.msg = hubMsg[1]]_vars
    /\ []<>(~Unwritten)

\* a write is in progress
Writing == \E t \in tasks : t.st = "writing"

C24_PublishBeforeAck ==
    \A c \in Conns :
        reply[c].kind = "saved" =>
            \E i \in 1..Len(published) : published[i] = reply[c].sequence_id

\* C25: at most one write is in progress on a connection: no two goroutines
\* are inside WriteJSON on the same connection at the same time, and none
\* calls WriteJSON on a connection while another one is inside.
C25_OneWriterPerConnection ==
    /\ \A t, u \in tasks :
          (t.conn = u.conn /\ t.st = "writing" /\ u.st = "writing") => t = u
    /\ \A t \in tasks : t.st # "panic"

\* the tenant id saveAndPublishLocation tags the message of record n with:
\* the sacco of the driver profile the reporter's session was opened for
TagOf(n) ==
    (CHOOSE d \in DriverTable : d.ID = records[n].DriverID).SaccoID

\* C26: a message tagged with sacco T gets goroutines only for connections
\* that are in the registry's set of T when run looks the set up, every
\* goroutine writes a message tagged with the sacco its connection was
\* registered under, and a connection receives only messages of that sacco.
C26_TenantIsolation ==
    /\ [][RunsLoopBody =>
            \A t \in tasks' \ tasks :
                /\ t.msg = hubMsg[1]
                /\ t.conn \in ClientsOf(saccoClients, hubMsg[1].sacco_id[2])]_vars
    /\ [](\A t \in tasks : t.msg.sacco_id[2] = ident[t.conn].saccoID)
    /\ [](\A c \in Conns : \A i \in 1..Len(delivered[c]) :
             TagOf(delivered[c][i]) = ident[c].saccoID)

\* both messages of sacco 1 have reached the sacco's watcher while a commuter
\* is registered under sacco 2 and has received nothing
C26_Witness ==
    /\ delivered["c2"] = <<1, 2>>
    /\ pc["c3"] = "watch"
    /\ "c3" \in ClientsOf(saccoClients, 2)
    /\ "c2" \in ClientsOf(saccoClients, 1)
    /\ delivered["c3"] = <<>>
    /\ tasks = {} /\ broadcast = <<>> /\ hubMsg = <<>>

\* C27: the moving flag of a persisted record agrees with its event: a
\* record with event "stopped" has IsMoving false and a record with event
\* "started" has IsMoving true.
C27_MovingFlagAgreesWithEvent ==
    \A i \in 1..Len(records) :
        /\ records[i].EventType = "stopped" => ~records[i].IsMoving
        /\ records[i].EventType = "started" => records[i].IsMoving

\* C28: for each reporter at most one record with event "initial" is
\* persisted.
C28_OneInitialPerReporter ==
    \A i, j \in 1..Len(records) :
        (/\ records[i].EventType = "initial"
         /\ records[j].EventType = "initial"
         /\ records[i].DriverID = records[j].DriverID) => i = j

DatabaseErrorReply == ErrorReply("Database error fetching last location.")

\* C29: when the query for the last location fails with an error other than
\* "record not found", the frame is answered with the database error reply,
\* no record is persisted or prepared, nothing is published, and the session
\* is back at reading, where it takes the next frame.
C29_LookupErrorIsNotAbsent ==
    /\ [][\A c \in Conns :
            DriverLookup(c, {TRUE}) =>
                /\ reply'[c] = DatabaseErrorReply
                /\ records' = records
                /\ pending'[c] = ZeroRecord
                /\ published' = published
                /\ broadcast' = broadcast
                /\ pc'[c] = "read"]_vars
    /\ [](\A c \in Conns :
             (/\ reply[c] = DatabaseErrorReply
              /\ pc[c] = "read"
              /\ inbox[c] # <<>>
              /\ ~Crashed) => ENABLED DriverRead(c))

\* the first sample of the reporter met a failing query: no record exists,
\* and the next frame is waiting to be read
C29_Witness ==
    /\ reply["c1"] = DatabaseErrorReply
    /\ records = <<>>
    /\ published = <<>>
    /\ pc["c1"] = "read"
    /\ sent = 2
    /\ inbox["c1"] # <<>>

\* C30: the hub starts a write only to a connection that is registered: a
\* goroutine calls WriteJSON on no connection that UnregisterClient has
\* taken out of the registry.
C30_NoWriteAfterUnregister ==
    [][\A t \in tasks' \ tasks :
          t.st = "writing" => Registered(t.conn)]_vars

====
